---------------------------- MODULE Spec2Model ----------------------------
(***************************************************************************)
(* Model of extract_function: the interactive curses selector of           *)
(* cplusplus_extract_function.py and python_extract_function.py, and the   *)
(* brace-counting span resolver of cplusplus_extract_function.py.          *)
(*                                                                         *)
(* A string is a sequence of character codes (chr/ord), a list is a        *)
(* sequence, and Python's None is the record None below.                   *)
(***************************************************************************)
EXTENDS Integers, Sequences, FiniteSets, TLC

VARIABLES
    variant,         \* "cpp": cplusplus_extract_function.py, "py": python_extract_function.py
    function_names,  \* the list handed to curses_select_function
    search_query,    \* main.search_query
    filtered_names,  \* main.filtered_names (py: filtered_functions)
    current_row,     \* main.current_row
    key,             \* the last value stdscr.getch() returned
    pc,              \* "Browsing": inside the while loop; "Returned": main returned
    chosen,          \* the value main returned
    tracing,         \* history only: whether the session's keys are recorded
    trace,           \* history only: the keys read so far when tracing
    file_content,    \* extract_function_body: f.readlines(), line terminators left out
    start_line,      \* extract_function_body: the start_line argument
    idx,             \* extract_function_body: the loop index
    lines,           \* extract_function_body: lines
    brace_count,     \* extract_function_body: brace_count
    in_function,     \* extract_function_body: in_function
    bpc,             \* "call", "loop", "returned" (func_body is set), "printed"
    func_body,       \* process_functions: func_body
    output,          \* what process_functions printed for the candidate
    phase,           \* 1: the file as read; 2: the file perturbed below the span
    first_body,      \* the span resolved in phase 1
    argv_names,      \* sys.argv[2:]
    file_found,      \* whether the file exists and can be read
    indexer,         \* cpp: how the ctags subprocess ends; py: how ast.parse ends
    rows,            \* cpp: the lines ctags printed, each split into its fields
    tree,            \* py: the body of the module ast.parse returns
    function_positions, \* cpp: the dict get_function_positions built, in insertion order
    requested,       \* cpp: process_functions' function_names; py: <<function_name>>
    ni,              \* process_functions: position of fname in function_names
    li,              \* process_functions: idx of enumerate(line_numbers, start=1)
    opc,             \* where the invocation is
    stdout,          \* what the invocation printed, in order
    exit_code,       \* the exit status once opc = "exited"
    terminal,        \* "held" between curses.wrapper's setup and its restore
    lookups,         \* history only: how many name lookups were made
    resolutions      \* history only: how many spans were asked of a resolver

selVars == <<variant, function_names, search_query, filtered_names,
             current_row, key, pc, chosen, tracing, trace>>

braceVars == <<file_content, start_line, idx, lines, brace_count, in_function,
               bpc, func_body, output, phase, first_body>>

orchVars == <<argv_names, file_found, indexer, rows, tree, function_positions,
              requested, ni, li, opc, stdout, exit_code, terminal, lookups,
              resolutions>>

vars == <<selVars, braceVars, orchVars>>

-----------------------------------------------------------------------------
(* Bounds of the model.                                                    *)

\* the longest search_query the model lets the user type
MaxQuery == 2
\* the longest recorded key history of a traced session
MaxTrace == 3
\* the most lines a file has
MaxLines == 3
\* the most lines a perturbation puts below a resolved span
MaxTail == 1

-----------------------------------------------------------------------------
(* Key codes.                                                              *)

KEY_UP == 259
KEY_DOWN == 258
KEY_ENTER == 343
KEY_BACKSPACE == 263
ESC == 27
\* what getch() yields when no key was read
ERR == -1

EnterKeys == {KEY_ENTER, 10, 13}
BackspaceKeys == {KEY_BACKSPACE, 127, 8}

\* 'a', 'A', 'm', '_' are accepted; ' ' and '-' are in 0..255 but not
\* alphanumeric; 260 (curses.KEY_LEFT) and ERR are outside 0..255.
Keys == {KEY_UP, KEY_DOWN, KEY_ENTER, 10, 13, KEY_BACKSPACE, 127, 8, ESC,
         97, 65, 109, 95, 32, 45, 260, ERR}

-----------------------------------------------------------------------------
(* Python's str operations on Latin-1 code points.                         *)

\* str.lower() of one character
Lower(c) ==
    IF (c >= 65 /\ c <= 90) \/ (c >= 192 /\ c <= 214) \/ (c >= 216 /\ c <= 222)
    THEN c + 32
    ELSE c

\* str.lower()
LowerStr(s) == [i \in 1..Len(s) |-> Lower(s[i])]

\* str.isalnum() of chr(c), 0 <= c <= 255
IsAlnum(c) ==
    \/ (c >= 48 /\ c <= 57)
    \/ (c >= 65 /\ c <= 90)
    \/ (c >= 97 /\ c <= 122)
    \/ c \in {170, 178, 179, 181, 185, 186, 188, 189, 190}
    \/ (c >= 192 /\ c <= 214)
    \/ (c >= 216 /\ c <= 246)
    \/ (c >= 248 /\ c <= 255)

\* s.startswith(q)
Contains_prefix_only(q, s) ==
    Len(q) <= Len(s) /\ SubSeq(s, 1, Len(q)) = q

\* q in s
Contains(q, s) ==
    \E i \in 0..(Len(s) - Len(q)) : SubSeq(s, i + 1, i + Len(q)) = q

\* s < t, as sorted() compares str
StrLess(s, t) ==
    \E i \in 1..(Len(t)) :
        /\ \A j \in 1..(i - 1) : j <= Len(s) /\ s[j] = t[j]
        /\ i - 1 <= Len(s)
        /\ (i > Len(s) \/ s[i] < t[i])

None == [some |-> FALSE, name |-> <<>>]
Some(n) == [some |-> TRUE, name |-> n]

-----------------------------------------------------------------------------
(* Candidate lists.                                                        *)

alpha == <<97, 108, 112, 104, 97>>
beta == <<98, 101, 116, 97>>
gamma == <<103, 97, 109, 109, 97>>

\* "AM", "_a", "ma", "m"
CandidateLists ==
    { <<alpha, beta, gamma>>,
      << <<65, 77>>, <<95, 97>>, <<109, 97>> >>,
      << <<109, 97>>, <<65, 77>>, <<109, 97>> >>,
      << <<109>> >> }

\* sorted(function_positions.keys()): ascending, no name twice
IsSortedKeys(l) == \A i \in 1..(Len(l) - 1) : StrLess(l[i], l[i + 1])

-----------------------------------------------------------------------------
(* curses_select_function.main                                             *)

\* the filter applied to the list shown so far instead of function_names
get_filtered_list_of_shown(query) ==
    LET query_lower == LowerStr(query)
        Keep(fn) == Contains(query_lower, LowerStr(fn))
    IN  SelectSeq(filtered_names, Keep)

get_filtered_list(query) ==
    LET query_lower == LowerStr(query)
        Keep(fn) == Contains(query_lower, LowerStr(fn))
    IN  SelectSeq(function_names, Keep)

\* the if/elif chain of the loop body: which branch handles key k
Branch_no_escape(k) ==
    IF k = KEY_UP THEN "up"
    ELSE IF k = KEY_DOWN THEN "down"
    ELSE IF k \in EnterKeys THEN "enter"
    ELSE IF k \in BackspaceKeys THEN "backspace"
    ELSE IF k >= 0 /\ k <= 255 THEN "char"
    ELSE "none"

Branch(k) ==
    IF k = KEY_UP THEN "up"
    ELSE IF k = KEY_DOWN THEN "down"
    ELSE IF k \in EnterKeys THEN "enter"
    ELSE IF k \in BackspaceKeys THEN "backspace"
    ELSE IF variant = "cpp" /\ k = ESC THEN "escape"
    ELSE IF k >= 0 /\ k <= 255 THEN "char"
    ELSE "none"

\* key = stdscr.getch()
getch(k) ==
    /\ pc = "Browsing"
    /\ key' = k
    /\ IF tracing
       THEN Len(trace) < MaxTrace /\ trace' = Append(trace, k)
       ELSE trace' = trace
    /\ UNCHANGED <<variant, function_names, tracing>>
    /\ UNCHANGED braceVars
    /\ UNCHANGED orchVars

RowAfterDown_no_clamp == current_row + 1

RowAfterDown ==
    IF current_row < Len(filtered_names) - 1 THEN current_row + 1 ELSE current_row

RowAfterUp_wraparound ==
    IF current_row > 0 THEN current_row - 1 ELSE Len(filtered_names) - 1

RowAfterUp ==
    IF current_row > 0 THEN current_row - 1 ELSE current_row

\* the clamp without the reset to 0 before it
RowAfterFilter_no_reset(shown) ==
    IF current_row >= Len(shown)
    THEN (IF Len(shown) - 1 > 0 THEN Len(shown) - 1 ELSE 0)
    ELSE current_row

\* current_row = 0, then the clamp that follows it
RowAfterFilter(shown) ==
    IF 0 >= Len(shown)
    THEN (IF Len(shown) - 1 > 0 THEN Len(shown) - 1 ELSE 0)
    ELSE 0

EnterResult_first ==
    IF filtered_names # <<>> THEN Some(filtered_names[1]) ELSE None

\* return filtered_names[current_row] / return None
EnterResult ==
    IF filtered_names # <<>> THEN Some(filtered_names[current_row + 1]) ELSE None

KeyUp ==
    \E k \in Keys :
        /\ Branch(k) = "up"
        /\ getch(k)
        /\ current_row' = RowAfterUp
        /\ UNCHANGED <<search_query, filtered_names, pc, chosen>>

KeyDown ==
    \E k \in Keys :
        /\ Branch(k) = "down"
        /\ getch(k)
        /\ current_row' = RowAfterDown
        /\ UNCHANGED <<search_query, filtered_names, pc, chosen>>

KeyEnter ==
    \E k \in Keys :
        /\ Branch(k) = "enter"
        /\ getch(k)
        /\ chosen' = EnterResult
        /\ pc' = "Returned"
        /\ UNCHANGED <<search_query, filtered_names, current_row>>

KeyBackspace ==
    \E k \in Keys :
        /\ Branch(k) = "backspace"
        /\ getch(k)
        /\ IF search_query # <<>>
           THEN /\ search_query' = SubSeq(search_query, 1, Len(search_query) - 1)
                /\ filtered_names' = get_filtered_list(search_query')
                /\ current_row' = RowAfterFilter(filtered_names')
           ELSE UNCHANGED <<search_query, filtered_names, current_row>>
        /\ UNCHANGED <<pc, chosen>>

KeyEscape ==
    \E k \in Keys :
        /\ Branch(k) = "escape"
        /\ getch(k)
        /\ chosen' = None
        /\ pc' = "Returned"
        /\ UNCHANGED <<search_query, filtered_names, current_row>>

KeyChar ==
    \E k \in Keys :
        /\ Branch(k) = "char"
        /\ getch(k)
        /\ IF IsAlnum(k) \/ k = 95
           THEN /\ Len(search_query) < MaxQuery
                /\ search_query' = Append(search_query, k)
                /\ filtered_names' = get_filtered_list(search_query')
                /\ current_row' = RowAfterFilter(filtered_names')
           ELSE UNCHANGED <<search_query, filtered_names, current_row>>
        /\ UNCHANGED <<pc, chosen>>

KeyOther ==
    \E k \in Keys :
        /\ Branch(k) = "none"
        /\ getch(k)
        /\ UNCHANGED <<search_query, filtered_names, current_row, pc, chosen>>

-----------------------------------------------------------------------------
(* Files.                                                                  *)

LBRACE == 123
RBRACE == 125

\* "", "x", "{", "}", "{}", "}{", "{{", "}}"
LineChoices ==
    { <<>>, <<120>>, <<LBRACE>>, <<RBRACE>>, <<LBRACE, RBRACE>>,
      <<RBRACE, LBRACE>>, <<LBRACE, LBRACE>>, <<RBRACE, RBRACE>> }

SeqsUpTo(S, n) == UNION { [1..m -> S] : m \in 0..n }

Files == SeqsUpTo(LineChoices, MaxLines)

\* seq[i] of a Python list, a negative i counting from the end
PyIndex(seq, i) == IF i < 0 THEN seq[Len(seq) + i + 1] ELSE seq[i + 1]

-----------------------------------------------------------------------------
(* extract_function_body                                                   *)

\* line.count(ch)
count(line, ch) == Cardinality({i \in 1..Len(line) : line[i] = ch})

StartIdx_not_converted(ln) == ln

\* start_idx = start_line - 1
StartIdx(ln) == ln - 1

\* not (start_idx < 0 or start_idx >= len(file_content))
StartInRange(start_idx) ==
    ~(start_idx < 0 \/ start_idx >= Len(file_content))

InFunctionAfter_once_positive(line, in_fn, cnt) ==
    in_fn \/ (cnt + count(line, LBRACE) - count(line, RBRACE) > 0)

\* if '{' in line: ... in_function = True
InFunctionAfter(line, in_fn, cnt) ==
    IF count(line, LBRACE) > 0 THEN TRUE ELSE in_fn

\* brace_count += line.count('{'); brace_count -= line.count('}')
BraceCountAfter(line, cnt) ==
    LET opened == IF count(line, LBRACE) > 0 THEN cnt + count(line, LBRACE) ELSE cnt
    IN  IF count(line, RBRACE) > 0 THEN opened - count(line, RBRACE) ELSE opened

\* entry: read the file, convert the line number, reject a start out of range
Call ==
    /\ bpc = "call"
    /\ idx' = StartIdx(start_line)
    /\ IF StartInRange(idx')
       THEN /\ lines' = <<>>
            /\ brace_count' = 0
            /\ in_function' = FALSE
            /\ bpc' = "loop"
            /\ UNCHANGED func_body
       ELSE /\ func_body' = <<>>
            /\ bpc' = "returned"
            /\ UNCHANGED <<lines, brace_count, in_function>>
    /\ UNCHANGED <<file_content, start_line, output, phase, first_body>>
    /\ UNCHANGED selVars
    /\ UNCHANGED orchVars

\* one iteration of: for idx in range(start_idx, len(file_content))
Scan ==
    /\ bpc = "loop"
    /\ idx < Len(file_content)
    /\ LET line == PyIndex(file_content, idx) IN
        /\ lines' = Append(lines, line)
        /\ in_function' = InFunctionAfter(line, in_function, brace_count)
        /\ brace_count' = BraceCountAfter(line, brace_count)
    /\ IF in_function' /\ brace_count' = 0
       THEN /\ func_body' = lines'
            /\ bpc' = "returned"
            /\ UNCHANGED idx
       ELSE /\ idx' = idx + 1
            /\ UNCHANGED <<func_body, bpc>>
    /\ UNCHANGED <<file_content, start_line, output, phase, first_body>>
    /\ UNCHANGED selVars
    /\ UNCHANGED orchVars

\* the range is exhausted: return lines
ScanEnd ==
    /\ bpc = "loop"
    /\ idx >= Len(file_content)
    /\ func_body' = lines
    /\ bpc' = "returned"
    /\ UNCHANGED <<file_content, start_line, idx, lines, brace_count,
                   in_function, output, phase, first_body>>
    /\ UNCHANGED selVars
    /\ UNCHANGED orchVars

-----------------------------------------------------------------------------
(* process_functions, for one candidate position                           *)

ErrorMessage(ln) == [kind |-> "error", line |-> ln, body |-> <<>>]
Block(ln, body) == [kind |-> "block", line |-> ln, body |-> body]

\* if not func_body: print the error and continue; else print the block
Report(ln, body) ==
    IF body = <<>> THEN ErrorMessage(ln) ELSE Block(ln, body)

Emit ==
    /\ bpc = "returned"
    /\ output' = Append(output, Report(start_line, func_body))
    /\ bpc' = "printed"
    /\ UNCHANGED <<file_content, start_line, idx, lines, brace_count,
                   in_function, func_body, phase, first_body>>
    /\ UNCHANGED selVars
    /\ UNCHANGED orchVars

-----------------------------------------------------------------------------
(* A second file that agrees with the first on lines 1..endLine.           *)

EndLine == start_line + Len(func_body) - 1

Perturb ==
    /\ bpc = "returned"
    /\ phase = 1
    /\ func_body # <<>>
    /\ \E tail \in SeqsUpTo(LineChoices, MaxTail) :
          file_content' = SubSeq(file_content, 1, EndLine) \o tail
    /\ first_body' = func_body
    /\ phase' = 2
    /\ bpc' = "call"
    /\ UNCHANGED <<start_line, idx, lines, brace_count, in_function,
                   func_body, output>>
    /\ UNCHANGED selVars
    /\ UNCHANGED orchVars

-----------------------------------------------------------------------------
(* Names, files and indexer output of the invocations.                     *)

\* the most names given on the command line
MaxRequested == 2

\* "f", "g", "m", "h", "foo"
f == <<102>>
g == <<103>>
m == <<109>>
h == <<104>>
foo == <<102, 111, 111>>

\* "function", "variable"
kFunction == <<102, 117, 110, 99, 116, 105, 111, 110>>
kVariable == <<118, 97, 114, 105, 97, 98, 108, 101>>

\* one line of `ctags -x`, split: <name> <kind> <line_number> <filename>
Row(name, kind, num) == <<name, kind, num, <<120>> >>

\* "g function 4 x", "f function 1 x", "f function 2 x", "m variable 3 x",
\* "m function" (too short), "m function 1x x" (no number)
RowsOverloads ==
    << Row(g, kFunction, <<52>>), Row(f, kFunction, <<49>>),
       Row(f, kFunction, <<50>>), Row(m, kVariable, <<51>>),
       <<m, kFunction>>, Row(m, kFunction, <<49, 120>>) >>

\* two definitions of f on line 1
RowsSameLine == << Row(f, kFunction, <<49>>), Row(f, kFunction, <<49>>) >>

\* m at line 9, below the end of every short file; f at line 3
RowsStale == << Row(m, kFunction, <<57>>), Row(f, kFunction, <<51>>) >>

\* foo at lines 10 and 40
RowsFoo == << Row(foo, kFunction, <<49, 48>>), Row(foo, kFunction, <<52, 48>>) >>

RowLists == {RowsOverloads, RowsSameLine, RowsStale, RowsFoo, <<>>}

\* "{}", "{", "}", "{"
FileShort == << <<LBRACE, RBRACE>>, <<LBRACE>>, <<RBRACE>>, <<LBRACE>> >>

\* 41 lines: "{" at 10 and 40, "}" at 11 and 41, "x" elsewhere
FileFoo ==
    [i \in 1..41 |-> IF i \in {10, 40} THEN <<LBRACE>>
                     ELSE IF i \in {11, 41} THEN <<RBRACE>>
                     ELSE <<120>>]

CppFiles == {FileShort, FileFoo}

\* a Python source of 7 lines, each line its own text
PyFile == [i \in 1..7 |-> <<48 + i>>]

Node(type, name, lineno, end_lineno, decorator_list, body) ==
    [type |-> type, name |-> name, lineno |-> lineno, end_lineno |-> end_lineno,
     decorator_list |-> decorator_list, body |-> body]

\* @d / @d / def f: / def g: (in f) / ... / def f: / ...
TreeDecorated ==
    << Node("FunctionDef", f, 3, 5, <<1, 2>>,
            << Node("FunctionDef", g, 4, 4, <<>>, <<>>) >>),
       Node("FunctionDef", f, 6, 7, <<>>, <<>>) >>

\* class C: / @d / def m: (in C) / ... / def g: / def f: (in g) / ...
TreeClass ==
    << Node("ClassDef", <<67>>, 1, 4, <<>>,
            << Node("FunctionDef", m, 3, 4, <<2>>, <<>>) >>),
       Node("FunctionDef", g, 5, 7, <<>>,
            << Node("FunctionDef", f, 6, 7, <<>>, <<>>) >>) >>

\* class C: with no function at all
TreeNoFunction == << Node("ClassDef", <<67>>, 1, 7, <<>>, <<>>) >>

PyTrees == {TreeDecorated, TreeClass, TreeNoFunction}

ArgvChoices == SeqsUpTo({f, g, m, h}, MaxRequested) \cup {<<foo>>}

-----------------------------------------------------------------------------
(* get_function_positions                                                  *)

IsDigits(str) == str # <<>> /\ \A i \in 1..Len(str) : str[i] >= 48 /\ str[i] <= 57

\* whether int(str) returns rather than raising ValueError
IntOk(str) ==
    \/ IsDigits(str)
    \/ Len(str) > 1 /\ str[1] \in {43, 45} /\ IsDigits(Tail(str))

RECURSIVE DecimalValue(_)
DecimalValue(str) ==
    IF str = <<>> THEN 0
    ELSE 10 * DecimalValue(SubSeq(str, 1, Len(str) - 1)) + (str[Len(str)] - 48)

\* int(str)
IntOf(str) ==
    IF str[1] = 45 THEN 0 - DecimalValue(Tail(str))
    ELSE IF str[1] = 43 THEN DecimalValue(Tail(str))
    ELSE DecimalValue(str)

\* name in d, for a dict kept as the sequence of its items
HasKey(d, name) == \E i \in 1..Len(d) : d[i].key = name

\* if name not in d: d[name] = []; then d[name].append(line_num)
DictAppend(d, name, line_num) ==
    IF HasKey(d, name)
    THEN [i \in 1..Len(d) |->
            IF d[i].key = name
            THEN [key |-> name, value |-> Append(d[i].value, line_num)]
            ELSE d[i]]
    ELSE Append(d, [key |-> name, value |-> <<line_num>>])

\* d.get(name, [])
DictGet(d, name) ==
    IF HasKey(d, name)
    THEN d[CHOOSE i \in 1..Len(d) : d[i].key = name].value
    ELSE <<>>

\* list(d.keys())
DictKeys(d) == [i \in 1..Len(d) |-> d[i].key]

RECURSIVE ParseRows(_, _)
\* the loop over output.splitlines(), from the dict built so far
ParseRows(d, rest) ==
    IF rest = <<>> THEN d
    ELSE LET parts == Head(rest) IN
         IF Len(parts) < 4 THEN ParseRows(d, Tail(rest))
         ELSE IF parts[2] = kFunction /\ IntOk(parts[3])
              THEN ParseRows(DictAppend(d, parts[1], IntOf(parts[3])), Tail(rest))
              ELSE ParseRows(d, Tail(rest))

get_function_positions == IF indexer = "ok" THEN ParseRows(<<>>, rows) ELSE <<>>

RECURSIVE sorted(_)
\* sorted(l) of a list of str
sorted(l) ==
    IF l = <<>> THEN <<>>
    ELSE LET least == CHOOSE i \in 1..Len(l) : \A j \in 1..Len(l) : ~StrLess(l[j], l[i])
         IN  <<l[least]>> \o
             sorted([j \in 1..(Len(l) - 1) |-> IF j < least THEN l[j] ELSE l[j + 1]])

-----------------------------------------------------------------------------
(* The output of an invocation.                                            *)

\* one print: what kind of line or block, about which name and line, with
\* which match number in its header (0: the header has none), with what text
Printed(kind, name, line, match, body) ==
    [kind |-> kind, name |-> name, line |-> line, match |-> match, body |-> body]

Message(kind) == Printed(kind, <<>>, 0, 0, <<>>)

\* sys.exit(code) after the prints msgs, or the end of the script
Exit(code, msgs) ==
    /\ stdout' = stdout \o msgs
    /\ exit_code' = code
    /\ opc' = "exited"

-----------------------------------------------------------------------------
(* curses_select_function inside curses.wrapper                            *)

\* curses.wrapper sets the terminal up and calls main, which runs up to its
\* first getch()
StartSelector(names) ==
    /\ terminal' = "held"
    /\ function_names' = names
    /\ search_query' = <<>>
    /\ filtered_names' = names
    /\ current_row' = 0
    /\ key' = ERR
    /\ pc' = "Browsing"
    /\ chosen' = None
    /\ opc' = "selecting"
    /\ UNCHANGED <<variant, tracing, trace>>

\* an exception leaves the event loop (curses.error, KeyboardInterrupt)
SelectorRaise ==
    /\ opc = "selecting"
    /\ pc = "Browsing"
    /\ pc' = "Raised"
    /\ UNCHANGED <<variant, function_names, search_query, filtered_names,
                   current_row, key, chosen, tracing, trace>>
    /\ UNCHANGED braceVars
    /\ UNCHANGED orchVars

TerminalAfterWrapper_not_restored == terminal

\* the finally clause of curses.wrapper: endwin()
TerminalAfterWrapper == "free"

\* main has returned or raised: curses.wrapper restores the terminal and
\* hands the value or the exception to its caller; main's locals are gone
WrapperRestore ==
    /\ opc = "selecting"
    /\ pc \in {"Returned", "Raised"}
    /\ terminal' = TerminalAfterWrapper
    /\ opc' = IF pc = "Returned" THEN "selected" ELSE "raised"
    /\ search_query' = <<>>
    /\ filtered_names' = <<>>
    /\ current_row' = 0
    /\ key' = ERR
    /\ UNCHANGED <<variant, function_names, pc, chosen, tracing, trace>>
    /\ UNCHANGED braceVars
    /\ UNCHANGED <<argv_names, file_found, indexer, rows, tree, function_positions,
                   requested, ni, li, stdout, exit_code, lookups, resolutions>>

\* nothing catches the exception: the interpreter prints the traceback
UncaughtException ==
    /\ opc = "raised"
    /\ Exit(1, <<Message("traceback")>>)
    /\ UNCHANGED selVars
    /\ UNCHANGED braceVars
    /\ UNCHANGED <<argv_names, file_found, indexer, rows, tree, function_positions,
                   requested, ni, li, terminal, lookups, resolutions>>

-----------------------------------------------------------------------------
(* cplusplus_extract_function.py: main, choose_function_interactively,     *)
(* process_functions                                                       *)

\* os.path.isfile(cpp_file)
CheckFile ==
    /\ variant = "cpp"
    /\ opc = "main"
    /\ IF file_found
       THEN opc' = "locate" /\ UNCHANGED <<stdout, exit_code>>
       ELSE Exit(1, <<Message("file_not_found")>>)
    /\ UNCHANGED selVars
    /\ UNCHANGED braceVars
    /\ UNCHANGED <<argv_names, file_found, indexer, rows, tree, function_positions,
                   requested, ni, li, terminal, lookups, resolutions>>

NoFunctions_unchecked(d) == FALSE

\* if not function_positions
NoFunctions(d) == d = <<>>

\* function_positions = get_function_positions(cpp_file), the check that it
\* is not empty, and the choice between the TUI and sys.argv[2:]
Locate ==
    /\ opc = "locate"
    /\ function_positions' = get_function_positions
    /\ LET said == IF indexer = "ok" THEN <<>>
                   ELSE IF indexer = "failed" THEN <<Message("ctags_failed")>>
                   ELSE <<Message("ctags_not_found")>> IN
         IF NoFunctions(function_positions')
         THEN /\ Exit(1, said \o <<Message("no_functions")>>)
              /\ UNCHANGED <<requested, ni>>
         ELSE /\ stdout' = stdout \o said
              /\ IF argv_names = <<>>
                 THEN opc' = "choose" /\ UNCHANGED <<requested, ni>>
                 ELSE opc' = "process" /\ requested' = argv_names /\ ni' = 1
              /\ UNCHANGED exit_code
    /\ UNCHANGED selVars
    /\ UNCHANGED braceVars
    /\ UNCHANGED <<argv_names, file_found, indexer, rows, tree, li, terminal,
                   lookups, resolutions>>

all_func_names_unsorted == DictKeys(function_positions)

\* all_func_names = sorted(function_positions.keys())
all_func_names == sorted(DictKeys(function_positions))

\* choose_function_interactively up to the call of curses_select_function
ChooseCpp ==
    /\ opc = "choose"
    /\ IF all_func_names = <<>>
       THEN /\ Exit(1, <<Message("no_functions")>>)
            /\ UNCHANGED selVars
            /\ UNCHANGED terminal
       ELSE /\ StartSelector(all_func_names)
            /\ UNCHANGED <<stdout, exit_code>>
    /\ UNCHANGED braceVars
    /\ UNCHANGED <<argv_names, file_found, indexer, rows, tree, function_positions,
                   requested, ni, li, lookups, resolutions>>

\* if not chosen_function: print the info and sys.exit(0); else return
\* [chosen_function] to main, which calls process_functions
AfterSelectCpp ==
    /\ variant = "cpp"
    /\ opc = "selected"
    /\ IF ~chosen.some \/ chosen.name = <<>>
       THEN /\ Exit(0, <<Message("no_selection")>>)
            /\ UNCHANGED <<requested, ni>>
       ELSE /\ requested' = <<chosen.name>>
            /\ ni' = 1
            /\ opc' = "process"
            /\ UNCHANGED <<stdout, exit_code>>
    /\ UNCHANGED selVars
    /\ UNCHANGED braceVars
    /\ UNCHANGED <<argv_names, file_found, indexer, rows, tree, function_positions,
                   li, terminal, lookups, resolutions>>

AfterNotFound_break == Len(requested) + 1

\* continue: the outer loop goes on with the next name
AfterNotFound == ni + 1

\* line_numbers of the name being processed
line_numbers == DictGet(function_positions, requested[ni])

\* for fname in function_names: the lookup, and the not-found message
ProcessName ==
    /\ opc = "process"
    /\ IF ni > Len(requested)
       THEN /\ Exit(0, <<>>)
            /\ UNCHANGED <<ni, li, lookups>>
       ELSE /\ lookups' = lookups + 1
            /\ IF line_numbers = <<>>
               THEN /\ stdout' = Append(stdout,
                                        Printed("not_found", requested[ni], 0, 0, <<>>))
                    /\ ni' = AfterNotFound
                    /\ UNCHANGED <<li, opc>>
               ELSE /\ li' = 1
                    /\ opc' = "candidate"
                    /\ UNCHANGED <<ni, stdout>>
            /\ UNCHANGED exit_code
    /\ UNCHANGED selVars
    /\ UNCHANGED braceVars
    /\ UNCHANGED <<argv_names, file_found, indexer, rows, tree, function_positions,
                   requested, terminal, resolutions>>

\* for idx, ln in enumerate(line_numbers, start=1): the call of
\* extract_function_body(cpp_file, ln), or the end of the inner loop
NextCandidate ==
    /\ opc = "candidate"
    /\ IF li > Len(line_numbers)
       THEN /\ ni' = ni + 1
            /\ opc' = "process"
            /\ UNCHANGED <<start_line, bpc, resolutions>>
       ELSE /\ start_line' = line_numbers[li]
            /\ bpc' = "call"
            /\ resolutions' = resolutions + 1
            /\ opc' = "resolving"
            /\ UNCHANGED ni
    /\ UNCHANGED selVars
    /\ UNCHANGED <<file_content, idx, lines, brace_count, in_function, func_body,
                   output, phase, first_body>>
    /\ UNCHANGED <<argv_names, file_found, indexer, rows, tree, function_positions,
                   requested, li, stdout, exit_code, terminal, lookups>>

MatchNumber_from_zero(n, k) == IF n > 1 THEN k - 1 ELSE 0

\* the header: "(match {idx} at line {ln})" when len(line_numbers) > 1,
\* "(line {ln})" otherwise (match number 0)
MatchNumber(n, k) == IF n > 1 THEN k ELSE 0

HeaderLine_of_first(lns, k) == lns[1]

\* the line number the header and the error message name
HeaderLine(lns, k) == lns[k]

\* what the body of the inner loop prints for candidate k
PrintedFor(fname, lns, k, body) ==
    IF body = <<>>
    THEN << Printed("extract_failed", fname, HeaderLine(lns, k), 0, <<>>) >>
    ELSE << Printed("block", fname, HeaderLine(lns, k),
                    MatchNumber(Len(lns), k), body) >>

\* the rest of the inner loop's body, once extract_function_body returned
PrintCandidate ==
    /\ opc = "resolving"
    /\ bpc = "returned"
    /\ stdout' = stdout \o PrintedFor(requested[ni], line_numbers, li, func_body)
    /\ li' = li + 1
    /\ opc' = "candidate"
    /\ bpc' = "printed"
    /\ UNCHANGED selVars
    /\ UNCHANGED <<file_content, start_line, idx, lines, brace_count, in_function,
                   func_body, output, phase, first_body>>
    /\ UNCHANGED <<argv_names, file_found, indexer, rows, tree, function_positions,
                   requested, ni, exit_code, terminal, lookups, resolutions>>

-----------------------------------------------------------------------------
(* python_extract_function.py                                              *)

RECURSIVE Walk(_)
\* ast.walk: breadth-first, from the queue of nodes still to yield
Walk(queue) ==
    IF queue = <<>> THEN <<>>
    ELSE <<Head(queue)>> \o Walk(Tail(queue) \o Head(queue).body)

IsFunctionDef(node) == node.type = "FunctionDef"

\* the nodes of ast.walk(tree) that are ast.FunctionDef, in walk order
FunctionDefs == SelectSeq(Walk(tree), IsFunctionDef)

\* get_function_names: the name of every FunctionDef, in walk order
get_function_names == [i \in 1..Len(FunctionDefs) |-> FunctionDefs[i].name]

\* node.name == function_name, function_name a str or None
NameIs(node, function_name) == function_name.some /\ node.name = function_name.name

\* whether the loop over ast.walk(tree) finds a target_node
HasTarget(function_name) ==
    \E i \in 1..Len(FunctionDefs) : NameIs(FunctionDefs[i], function_name)

\* the first FunctionDef of that name: the loop breaks on it
TargetNode(function_name) ==
    FunctionDefs[CHOOSE i \in 1..Len(FunctionDefs) :
                    /\ NameIs(FunctionDefs[i], function_name)
                    /\ \A j \in 1..(i - 1) : ~NameIs(FunctionDefs[j], function_name)]

MinOf(S) == CHOOSE x \in S : \A y \in S : x <= y

StartLineno_declaration_only(node) == node.lineno

\* start_lineno: the def line, or the first decorator line above it
StartLineno(node) ==
    IF node.decorator_list # <<>>
    THEN MinOf({node.lineno} \cup {node.decorator_list[i] : i \in 1..Len(node.decorator_list)})
    ELSE node.lineno

\* seq[a:b] for 0 <= a
PySlice(seq, a, b) == SubSeq(seq, a + 1, IF b < Len(seq) THEN b ELSE Len(seq))

\* source_lines[start_lineno - 1 : target_node.end_lineno]
extracted_lines(node) == PySlice(file_content, StartLineno(node) - 1, node.end_lineno)

\* str(function_name) inside a message
Shown(function_name) ==
    IF function_name.some THEN function_name.name ELSE <<78, 111, 110, 101>>

\* the script body: the TUI when only the file is given, else sys.argv[2]
PyMain ==
    /\ variant = "py"
    /\ opc = "main"
    /\ IF argv_names = <<>>
       THEN opc' = "names" /\ UNCHANGED requested
       ELSE opc' = "extract" /\ requested' = <<Some(argv_names[1])>>
    /\ UNCHANGED selVars
    /\ UNCHANGED braceVars
    /\ UNCHANGED <<argv_names, file_found, indexer, rows, tree, function_positions,
                   ni, li, stdout, exit_code, terminal, lookups, resolutions>>

\* choose_function_from_file up to the call of curses_select_function
GetNames ==
    /\ opc = "names"
    /\ IF ~file_found
       THEN /\ Exit(1, <<Message("read_error")>>)
            /\ UNCHANGED selVars
            /\ UNCHANGED terminal
       ELSE IF indexer # "ok"
       THEN /\ Exit(1, <<Message("syntax_error")>>)
            /\ UNCHANGED selVars
            /\ UNCHANGED terminal
       ELSE IF get_function_names = <<>>
       THEN /\ Exit(1, <<Message("no_functions")>>)
            /\ UNCHANGED selVars
            /\ UNCHANGED terminal
       ELSE /\ StartSelector(get_function_names)
            /\ UNCHANGED <<stdout, exit_code>>
    /\ UNCHANGED braceVars
    /\ UNCHANGED <<argv_names, file_found, indexer, rows, tree, function_positions,
                   requested, ni, li, lookups, resolutions>>

\* function_name = choose_function_from_file(file_path), whatever it returned
AfterSelectPy ==
    /\ variant = "py"
    /\ opc = "selected"
    /\ requested' = <<chosen>>
    /\ opc' = "extract"
    /\ UNCHANGED selVars
    /\ UNCHANGED braceVars
    /\ UNCHANGED <<argv_names, file_found, indexer, rows, tree, function_positions,
                   ni, li, stdout, exit_code, terminal, lookups, resolutions>>

\* extract_function(file_path, function_name), then the end of the script
Extract ==
    /\ opc = "extract"
    /\ LET function_name == requested[1] IN
         IF ~file_found
         THEN Exit(1, <<Message("read_error")>>) /\ UNCHANGED <<lookups, resolutions>>
         ELSE IF indexer # "ok"
         THEN Exit(1, <<Message("syntax_error")>>) /\ UNCHANGED <<lookups, resolutions>>
         ELSE IF ~HasTarget(function_name)
         THEN /\ Exit(1, <<Printed("not_found", Shown(function_name), 0, 0, <<>>)>>)
              /\ lookups' = lookups + 1
              /\ UNCHANGED resolutions
         ELSE LET target_node == TargetNode(function_name) IN
              /\ Exit(0, <<Printed("code", function_name.name, StartLineno(target_node),
                                   0, extracted_lines(target_node))>>)
              /\ lookups' = lookups + 1
              /\ resolutions' = resolutions + 1
    /\ UNCHANGED selVars
    /\ UNCHANGED braceVars
    /\ UNCHANGED <<argv_names, file_found, indexer, rows, tree, function_positions,
                   requested, ni, li, terminal>>

-----------------------------------------------------------------------------
(* Specifications.                                                         *)

SelectorIdle ==
    /\ variant = "cpp"
    /\ function_names = <<alpha>>
    /\ search_query = <<>>
    /\ filtered_names = function_names
    /\ current_row = 0
    /\ key = ERR
    /\ pc = "Returned"
    /\ chosen = Some(alpha)
    /\ tracing = FALSE
    /\ trace = <<>>

BraceIdle ==
    /\ file_content = <<>>
    /\ start_line = 1
    /\ idx = 0
    /\ lines = <<>>
    /\ brace_count = 0
    /\ in_function = FALSE
    /\ bpc = "printed"
    /\ func_body = <<>>
    /\ output = <<>>
    /\ phase = 1
    /\ first_body = <<>>

OrchIdle ==
    /\ argv_names = <<>>
    /\ file_found = TRUE
    /\ indexer = "ok"
    /\ rows = <<>>
    /\ tree = <<>>
    /\ function_positions = <<>>
    /\ requested = <<>>
    /\ ni = 1
    /\ li = 1
    /\ opc = "idle"
    /\ stdout = <<>>
    /\ exit_code = 0
    /\ lookups = 0
    /\ resolutions = 0

\* curses_select_function(function_names), up to the first getch()
SelectorInit ==
    /\ variant \in {"cpp", "py"}
    /\ function_names \in CandidateLists
    /\ variant = "cpp" => IsSortedKeys(function_names)
    /\ search_query = <<>>
    /\ filtered_names = function_names
    /\ current_row = 0
    /\ key = ERR
    /\ pc = "Browsing"
    /\ chosen = None
    /\ trace = <<>>

\* extract_function_body(cpp_file, ln) about to be called
BraceInit ==
    /\ file_content \in Files
    /\ start_line \in 0..(MaxLines + 1)
    /\ idx = 0
    /\ lines = <<>>
    /\ brace_count = 0
    /\ in_function = FALSE
    /\ bpc = "call"
    /\ func_body = <<>>
    /\ output = <<>>
    /\ phase = 1
    /\ first_body = <<>>

Init ==
    /\ SelectorInit
    /\ tracing = FALSE
    /\ BraceIdle
    /\ OrchIdle
    /\ terminal = "held"

Next ==
    \/ KeyUp
    \/ KeyDown
    \/ KeyEnter
    \/ KeyBackspace
    \/ KeyEscape
    \/ KeyChar
    \/ KeyOther

Spec == Init /\ [][Next]_vars

\* the selector with the session's keys recorded, on ["alpha","beta","gamma"]
InitSession ==
    /\ SelectorInit
    /\ function_names = <<alpha, beta, gamma>>
    /\ tracing = TRUE
    /\ BraceIdle
    /\ OrchIdle
    /\ terminal = "held"

SpecSession == InitSession /\ [][Next]_vars

InitBrace ==
    /\ BraceInit
    /\ SelectorIdle
    /\ OrchIdle
    /\ terminal = "free"

NextBrace ==
    \/ Call
    \/ Scan
    \/ ScanEnd
    \/ Emit

SpecBrace == InitBrace /\ [][NextBrace]_vars

NextPerturb ==
    \/ Call
    \/ Scan
    \/ ScanEnd
    \/ Emit
    \/ Perturb

SpecPerturb == InitBrace /\ [][NextPerturb]_vars

\* one invocation of either script, from its command line
InitRun ==
    /\ variant \in {"cpp", "py"}
    /\ argv_names \in ArgvChoices
    /\ file_found \in BOOLEAN
    /\ IF variant = "cpp"
       THEN /\ indexer \in {"ok", "failed", "missing"}
            /\ rows \in RowLists
            /\ tree = <<>>
            /\ file_content \in CppFiles
       ELSE /\ indexer \in {"ok", "syntax_error"}
            /\ rows = <<>>
            /\ tree \in PyTrees
            /\ file_content = PyFile
    /\ function_names = <<>>
    /\ search_query = <<>>
    /\ filtered_names = <<>>
    /\ current_row = 0
    /\ key = ERR
    /\ pc = "Idle"
    /\ chosen = None
    /\ tracing = FALSE
    /\ trace = <<>>
    /\ start_line = 1
    /\ idx = 0
    /\ lines = <<>>
    /\ brace_count = 0
    /\ in_function = FALSE
    /\ bpc = "printed"
    /\ func_body = <<>>
    /\ output = <<>>
    /\ phase = 1
    /\ first_body = <<>>
    /\ function_positions = <<>>
    /\ requested = <<>>
    /\ ni = 1
    /\ li = 1
    /\ opc = "main"
    /\ stdout = <<>>
    /\ exit_code = 0
    /\ terminal = "free"
    /\ lookups = 0
    /\ resolutions = 0

NextRun ==
    \/ CheckFile
    \/ Locate
    \/ ChooseCpp
    \/ PyMain
    \/ GetNames
    \/ KeyUp
    \/ KeyDown
    \/ KeyEnter
    \/ KeyBackspace
    \/ KeyEscape
    \/ KeyChar
    \/ KeyOther
    \/ SelectorRaise
    \/ WrapperRestore
    \/ UncaughtException
    \/ AfterSelectCpp
    \/ AfterSelectPy
    \/ ProcessName
    \/ NextCandidate
    \/ Call
    \/ Scan
    \/ ScanEnd
    \/ PrintCandidate
    \/ Extract

SpecRun == InitRun /\ [][NextRun]_vars

-----------------------------------------------------------------------------
(* Properties of the selector.                                             *)

Browsing == pc = "Browsing"
Confirmed == pc = "Returned" /\ chosen.some
Cancelled == pc = "Returned" /\ ~chosen.some

\* C1: in every reachable selector state, a non-empty filtered list has
\* 0 <= selectedIndex < len(filteredList), and an empty one has
\* selectedIndex = 0.
C1_IndexValid ==
    /\ filtered_names # <<>> =>
          current_row >= 0 /\ current_row < Len(filtered_names)
    /\ filtered_names = <<>> => current_row = 0

\* Down has moved the selection to the last row of a list of several names.
C1_Witness ==
    /\ key = KEY_DOWN
    /\ Len(filtered_names) >= 2
    /\ current_row = Len(filtered_names) - 1

\* two characters are the same letter up to case
SameLetter(a, b) ==
    \/ a = b
    \/ /\ (a >= 65 /\ a <= 90) \/ (a >= 192 /\ a <= 214) \/ (a >= 216 /\ a <= 222)
       /\ b = a + 32
    \/ /\ (b >= 65 /\ b <= 90) \/ (b >= 192 /\ b <= 214) \/ (b >= 216 /\ b <= 222)
       /\ a = b + 32

\* name contains q, case-insensitively
ContainsCI(name, q) ==
    \E i \in 1..(Len(name) - Len(q) + 1) :
        \A j \in 1..Len(q) : SameLetter(name[i + j - 1], q[j])

\* the names of the full list that contain q, in the list's order
DirectFilter(q) ==
    LET Has(name) == ContainsCI(name, q) IN SelectSeq(function_names, Has)

\* C2: in every reachable selector state, filteredList is the sub-sequence
\* (in original order) of the full candidate list whose names contain the
\* current filterQuery case-insensitively, whatever the edit history.
C2_FilterFromFullList == filtered_names = DirectFilter(search_query)

\* A Backspace has widened the list again: the query is non-empty, the list
\* shown is neither empty nor the full list.
C2_Witness ==
    /\ key \in BackspaceKeys
    /\ search_query # <<>>
    /\ filtered_names # <<>>
    /\ Len(filtered_names) < Len(function_names)

EnterStep == Browsing /\ key' \in EnterKeys

EscapeStep == Browsing /\ key' = ESC

\* C4 as stated: in both variants, Escape in Browsing ends the selector in
\* Cancelled, with no selection.
C4_AsStated ==
    [][EscapeStep => pc' = "Returned" /\ chosen' = None]_vars

\* C4 amended: in the C++ variant Escape in Browsing ends the selector in
\* Cancelled whatever the query and index are; in the Python variant Escape
\* is ignored: the selector stays in Browsing with its state unchanged.
C4_EscapeByVariant ==
    [][EscapeStep =>
        IF variant = "cpp"
        THEN pc' = "Returned" /\ chosen' = None
        ELSE pc' = "Browsing" /\ UNCHANGED <<search_query, filtered_names,
                                            current_row, chosen>>]_vars

\* Escape has cancelled the C++ selector with a query typed and a row chosen.
C4_Witness ==
    /\ variant = "cpp"
    /\ key = ESC
    /\ Cancelled
    /\ search_query # <<>>
    /\ current_row > 0

\* C5 as stated: on ["alpha","beta","gamma"], after "a" the list is
\* ["alpha","gamma"] with index 0; after Down the index is 1 and points to
\* "gamma"; Enter then returns "gamma".
C5_AsStated ==
    /\ trace = <<97>> =>
          filtered_names = <<alpha, gamma>> /\ current_row = 0
    /\ trace = <<97, KEY_DOWN>> =>
          current_row = 1 /\ filtered_names[current_row + 1] = gamma
    /\ trace = <<97, KEY_DOWN, 10>> => chosen = Some(gamma)

\* C5 amended: on ["alpha","beta","gamma"], after "a" the list is still
\* ["alpha","beta","gamma"] ("beta" contains "a") with index 0; after Down
\* the index is 1 and points to "beta"; Enter then returns "beta".
C5_Session ==
    /\ trace = <<97>> =>
          filtered_names = <<alpha, beta, gamma>> /\ current_row = 0
    /\ trace = <<97, KEY_DOWN>> =>
          current_row = 1 /\ filtered_names[current_row + 1] = beta
    /\ trace = <<97, KEY_DOWN, 10>> => Confirmed /\ chosen = Some(beta)

\* The session "a", Down, Enter has run to its end.
C5_Witness == trace = <<97, KEY_DOWN, 10>> /\ pc = "Returned"

-----------------------------------------------------------------------------
(* Properties of the brace-delimited span resolver.                        *)

Resolved == bpc \in {"returned", "printed"}
InRange == start_line >= 1 /\ start_line <= Len(file_content)

RECURSIVE Occurrences(_, _)
\* how many times ch occurs in text
Occurrences(text, ch) ==
    IF text = <<>> THEN 0
    ELSE (IF Head(text) = ch THEN 1 ELSE 0) + Occurrences(Tail(text), ch)

RECURSIVE Counter(_)
\* the sum over lines start_line..L of the '{' minus the '}' of each line
Counter(L) ==
    IF L < start_line THEN 0
    ELSE Counter(L - 1) + Occurrences(file_content[L], LBRACE)
                        - Occurrences(file_content[L], RBRACE)

ScanLines == start_line..Len(file_content)

\* the counter is zero after L and was positive after an earlier scanned line
ZeroAfterPositive(L) ==
    Counter(L) = 0 /\ \E M \in start_line..(L - 1) : Counter(M) > 0

\* the counter is zero after L and a line of start_line..L holds a '{'
ZeroAfterOpening(L) ==
    /\ Counter(L) = 0
    /\ \E M \in start_line..L : Occurrences(file_content[M], LBRACE) > 0

\* C6 as stated: the span ends at the first line L >= startLine with the
\* counter zero after L and strictly positive after an earlier scanned line,
\* and no line is taken as the end before the counter has been positive.
C6_AsStated ==
    (Resolved /\ InRange) =>
        /\ \A L \in ScanLines :
              (ZeroAfterPositive(L) /\ \A K \in start_line..(L - 1) : ~ZeroAfterPositive(K))
                  => EndLine = L
        /\ idx < Len(file_content) =>
              \E M \in start_line..(EndLine - 1) : Counter(M) > 0

\* C6 amended: the span ends at the first line L >= startLine with the
\* counter zero after L and a '{' on some line of startLine..L; the counter
\* need not have been positive before L, so a start line containing "{}"
\* ends the span at itself and a "}" line followed by a "{" line ends it at
\* the "{" line.
C6_EndAtFirstZeroAfterOpening ==
    (Resolved /\ InRange) =>
        \A L \in ScanLines :
            (ZeroAfterOpening(L) /\ \A K \in start_line..(L - 1) : ~ZeroAfterOpening(K))
                => EndLine = L

\* A span of several lines has ended above the last line of the file, at a
\* line before which the counter was never positive.
C6_Witness ==
    /\ Resolved /\ InRange
    /\ EndLine > start_line
    /\ EndLine < Len(file_content)
    /\ ZeroAfterOpening(EndLine)
    /\ ~ZeroAfterPositive(EndLine)

\* C7: when the scan reaches end-of-file without the counter having
\* returned to zero after an opening delimiter, resolution fails: no span is
\* returned and only an extraction-failure message is printed.
C7_AsStated ==
    (Resolved /\ InRange /\ \A L \in ScanLines : ~ZeroAfterOpening(L)) =>
        /\ func_body = <<>>
        /\ bpc = "printed" => output = <<ErrorMessage(start_line)>>

RECURSIVE Flatten(_)
\* the text of a list of lines
Flatten(ls) == IF ls = <<>> THEN <<>> ELSE Head(ls) \o Flatten(Tail(ls))

\* C8: every non-empty list extract_function_body returns holds as many '{'
\* as '}'.
C8_AsStated ==
    (Resolved /\ func_body # <<>>) =>
        Occurrences(Flatten(func_body), LBRACE) = Occurrences(Flatten(func_body), RBRACE)

\* C9: a second file that agrees with the first on lines 1..endLine of the
\* span resolved in the first resolves, from the same startLine, to the same
\* span.
C9_AsStated ==
    (Resolved /\ phase = 2) => func_body = first_body

\* C10: the resolver either fails, which process_functions reports as an
\* extraction failure without a block (and a start line below 1 or beyond
\* the last line always fails), or returns a non-empty span with
\* 1 <= startLine <= endLine <= lineCount whose lines are the file's lines
\* startLine..endLine in order, which process_functions prints as a block.
C10_SpanOrFailure ==
    Resolved =>
        /\ ~InRange => func_body = <<>>
        /\ func_body = <<>> =>
              (bpc = "printed" => output = <<ErrorMessage(start_line)>>)
        /\ func_body # <<>> =>
              /\ 1 <= start_line
              /\ start_line <= EndLine
              /\ EndLine <= Len(file_content)
              /\ func_body = SubSeq(file_content, start_line, EndLine)
              /\ bpc = "printed" => output = <<Block(start_line, func_body)>>

\* A span of several lines that starts below line 1 of the file was
\* resolved and printed as a block.
C10_Witness ==
    /\ bpc = "printed"
    /\ start_line >= 2
    /\ Len(func_body) >= 2
    /\ output = <<Block(start_line, func_body)>>

-----------------------------------------------------------------------------
(* Frame properties of the selector's keys.                                *)

\* C19: Up and Down move selectedIndex by exactly one step, clamped and
\* without wraparound: Up at index 0 and Down at the last index (or on an
\* empty list) leave it unchanged; neither key changes filterQuery or
\* filteredList.
C19_UpDownClamped ==
    [][(Browsing /\ key' \in {KEY_UP, KEY_DOWN}) =>
        /\ key' = KEY_UP =>
              current_row' = IF current_row = 0 THEN 0 ELSE current_row - 1
        /\ key' = KEY_DOWN =>
              current_row' = IF \/ filtered_names = <<>>
                                \/ current_row = Len(filtered_names) - 1
                             THEN current_row
                             ELSE current_row + 1
        /\ UNCHANGED <<search_query, filtered_names, pc, chosen>>]_vars

\* Up has moved the selection from the last row of three to the middle one.
C19_Witness ==
    /\ key = KEY_UP
    /\ Len(filtered_names) = 3
    /\ current_row = 1
    /\ Browsing

\* the keys the selector acts on, as the claim lists them
AcceptedChar(k) == k >= 0 /\ k <= 255 /\ (IsAlnum(k) \/ k = 95)
NamedKey(k) ==
    k \in {KEY_UP, KEY_DOWN, ESC} \/ k \in EnterKeys \/ k \in BackspaceKeys

\* C20: a key that is none of Up, Down, Enter, Escape, Backspace or an
\* alphanumeric-or-underscore character, and a Backspace on an empty
\* filterQuery, leave filterQuery, filteredList and selectedIndex unchanged
\* and the selector in Browsing; an accepted character or an effective
\* Backspace changes filterQuery by exactly one trailing character and sets
\* selectedIndex to 0.
C20_KeyFrame ==
    [][Browsing =>
        /\ (~NamedKey(key') /\ ~AcceptedChar(key')) =>
              UNCHANGED <<search_query, filtered_names, current_row, pc, chosen>>
        /\ (key' \in BackspaceKeys /\ search_query = <<>>) =>
              UNCHANGED <<search_query, filtered_names, current_row, pc, chosen>>
        /\ (key' \in BackspaceKeys /\ search_query # <<>>) =>
              /\ search_query = Append(search_query', search_query[Len(search_query)])
              /\ current_row' = 0
              /\ pc' = "Browsing"
        /\ (~NamedKey(key') /\ AcceptedChar(key')) =>
              /\ search_query' = Append(search_query, key')
              /\ current_row' = 0
              /\ pc' = "Browsing"]_vars

\* A key above 255 was ignored with a query typed and a row chosen.
C20_Witness ==
    /\ key = 260
    /\ Browsing
    /\ search_query # <<>>
    /\ current_row > 0

-----------------------------------------------------------------------------
(* Properties of an invocation.                                            *)

Exited == opc = "exited"

\* the positions the locator holds for a name
PositionsOf(name) ==
    IF variant = "cpp"
    THEN IF \E i \in 1..Len(function_positions) : function_positions[i].key = name
         THEN function_positions[CHOOSE i \in 1..Len(function_positions) :
                                    function_positions[i].key = name].value
         ELSE <<>>
    ELSE LET named(node) == node.type = "FunctionDef" /\ node.name = name
             found == SelectSeq(Walk(tree), named)
         IN  [i \in 1..Len(found) |-> found[i].lineno]

\* a start line for which the brace resolver returns nothing
OutOfFile(p) == variant = "cpp" /\ (p < 1 \/ p > Len(file_content))

\* what a batch owes one name: a not-found message, or one entry per
\* candidate position, in order, a failure message or an emitted block
OwedTo(name) ==
    IF PositionsOf(name) = <<>>
    THEN << [what |-> "not_found", name |-> name, line |-> 0] >>
    ELSE [k \in 1..Len(PositionsOf(name)) |->
            [what |-> IF OutOfFile(PositionsOf(name)[k]) THEN "failed" ELSE "emitted",
             name |-> name, line |-> PositionsOf(name)[k]]]

RECURSIVE Owed(_)
\* what a batch owes a list of names, in order
Owed(names) == IF names = <<>> THEN <<>> ELSE OwedTo(Head(names)) \o Owed(Tail(names))

\* what was printed, entry by entry
Paid ==
    [i \in 1..Len(stdout) |->
        [what |-> IF stdout[i].kind = "not_found" THEN "not_found"
                  ELSE IF stdout[i].kind = "extract_failed" THEN "failed"
                  ELSE IF stdout[i].kind \in {"block", "code"} THEN "emitted"
                  ELSE "other",
         name |-> stdout[i].name,
         line |-> stdout[i].line]]

WhatAndName(entries) ==
    [i \in 1..Len(entries) |-> <<entries[i].what, entries[i].name>>]

\* the names the invocation was asked to extract, once extraction started
BatchStarted ==
    /\ requested # <<>>
    /\ file_found
    /\ indexer = "ok"
    /\ variant = "py" => requested[1].some
AskedNames ==
    IF variant = "cpp" THEN requested
    ELSE IF argv_names # <<>> THEN argv_names ELSE <<requested[1].name>>

\* C11 as stated: every requested name is processed, in order; an absent
\* name and a failed candidate cost one message each, and every other name
\* and candidate is still attempted and emitted.
C11_AsStated ==
    (Exited /\ BatchStarted) =>
        /\ WhatAndName(Paid) = WhatAndName(Owed(AskedNames))
        /\ lookups = Len(AskedNames)

\* C11 amended: in the C++ variant every requested name is processed, in
\* order, an absent name and a failed candidate cost one message each,
\* every other name and candidate is still attempted and emitted, and the
\* run ends with exit code 0; the Python variant processes only the first
\* requested name, and when that name is absent it prints the not-found
\* message and ends the run with exit code 1.
C11_BatchContinues ==
    (Exited /\ BatchStarted) =>
        IF variant = "cpp"
        THEN /\ Paid = Owed(requested)
             /\ lookups = Len(requested)
             /\ resolutions = Len(SelectSeq(Paid, LAMBDA e : e.what # "not_found"))
             /\ exit_code = 0
        ELSE /\ WhatAndName(Paid) = WhatAndName(SubSeq(OwedTo(AskedNames[1]), 1, 1))
             /\ lookups = 1
             /\ exit_code = IF PositionsOf(AskedNames[1]) = <<>> THEN 1 ELSE 0

\* A C++ batch has ended with a block printed after a not-found or an
\* extraction-failure message.
C11_Witness ==
    /\ Exited
    /\ variant = "cpp"
    /\ \E i \in 1..Len(stdout) : \E j \in (i + 1)..Len(stdout) :
          /\ stdout[i].kind \in {"not_found", "extract_failed"}
          /\ stdout[j].kind = "block"

\* C12 as stated: whenever the selector ends without a selection, in both
\* variants, the run ends with exit code 0 and an informational message,
\* prints no block, and makes no name lookup and no span resolution.
C12_AsStated ==
    (pc = "Returned" /\ ~chosen.some) =>
        /\ lookups = 0
        /\ resolutions = 0
        /\ Exited => exit_code = 0 /\ stdout = <<Message("no_selection")>>

IsEmitted(e) == e.kind \in {"block", "code"}

\* the blocks printed for name X, in the order printed
EmittedFor(X) ==
    LET mine(e) == IsEmitted(e) /\ e.name = X IN SelectSeq(stdout, mine)

\* the lines a printed block spans
SpanOf(e) == <<e.line, e.line + Len(e.body) - 1>>

\* the names asked for exactly once whose candidates all resolve
AskedOnce ==
    {AskedNames[i] : i \in {j \in 1..Len(AskedNames) :
        /\ \A k \in 1..Len(AskedNames) : AskedNames[k] = AskedNames[j] => k = j
        /\ PositionsOf(AskedNames[j]) # <<>>
        /\ \A k \in 1..Len(PositionsOf(AskedNames[j])) :
              ~OutOfFile(PositionsOf(AskedNames[j])[k])}}

\* the header's match number for candidate k of N
LabelOf(N, k) == IF N > 1 THEN k ELSE 0

\* C13 as stated: a requested name with N candidate positions that all
\* resolve gets exactly N blocks, in discovery order, with N pairwise
\* distinct spans, labeled "(match k at line p_k)" when N > 1 and
\* "(line p_1)" when N = 1.
C13_AsStated ==
    (Exited /\ BatchStarted) =>
        \A X \in AskedOnce :
            LET p == PositionsOf(X)
                E == EmittedFor(X)
            IN  /\ Len(E) = Len(p)
                /\ \A k \in 1..Len(E) : \A j \in 1..(k - 1) : SpanOf(E[j]) # SpanOf(E[k])
                /\ variant = "cpp" =>
                      \A k \in 1..Len(E) :
                          E[k].line = p[k] /\ E[k].match = LabelOf(Len(p), k)

\* C13 amended: in the C++ variant a requested name with N candidate
\* positions that all resolve gets exactly N blocks, in discovery order,
\* labeled "(match k at line p_k)" when N > 1 and "(line p_1)" when N = 1;
\* two of its spans are distinct exactly when their positions are (two
\* candidates on one line give the same span twice).  The Python variant
\* looks at the first requested name only and prints one unlabeled block,
\* for the first definition of that name in walk order, however many
\* definitions share the name.
C13_DuplicatesLabeled ==
    (Exited /\ BatchStarted) =>
        \A X \in AskedOnce :
            LET p == PositionsOf(X)
                E == EmittedFor(X)
            IN  IF variant = "cpp"
                THEN /\ Len(E) = Len(p)
                     /\ \A k \in 1..Len(E) :
                           E[k].line = p[k] /\ E[k].match = LabelOf(Len(p), k)
                     /\ \A k \in 1..Len(E) : \A j \in 1..(k - 1) :
                           (SpanOf(E[j]) # SpanOf(E[k])) <=> (p[j] # p[k])
                ELSE IF X # AskedNames[1] THEN E = <<>> ELSE
                     /\ Len(E) = 1
                     /\ E[1].match = 0
                     /\ SpanOf(E[1])[2] >= p[1]
                     /\ SpanOf(E[1])[1] <= p[1]
                     /\ Len(p) > 1 => SpanOf(E[1])[2] < p[2]

\* A C++ batch has printed two blocks for f, "match 1" and "match 2", at
\* two different lines.
C13_Witness ==
    /\ Exited
    /\ variant = "cpp"
    /\ Len(EmittedFor(f)) = 2
    /\ EmittedFor(f)[1].match = 1
    /\ EmittedFor(f)[2].match = 2
    /\ EmittedFor(f)[1].line # EmittedFor(f)[2].line

\* two functions named "foo", declared at lines 10 and 40, asked for by name
FooScenario ==
    /\ variant = "cpp"
    /\ file_found
    /\ indexer = "ok"
    /\ rows = RowsFoo
    /\ file_content = FileFoo
    /\ argv_names = <<foo>>

\* C14 as stated: the locator returns [10, 40] for "foo" and the batch
\* prints two blocks labeled "(match 1 at line 10)" and "(match 2 at line
\* 20)".
C14_AsStated ==
    (FooScenario /\ Exited) =>
        /\ PositionsOf(foo) = <<10, 40>>
        /\ Len(stdout) = 2
        /\ stdout[1].kind = "block" /\ stdout[1].match = 1 /\ stdout[1].line = 10
        /\ stdout[2].kind = "block" /\ stdout[2].match = 2 /\ stdout[2].line = 20

\* C14 amended: the locator returns [10, 40] for "foo" and the batch prints
\* two blocks labeled "(match 1 at line 10)" and "(match 2 at line 40)".
C14_FooLabels ==
    (FooScenario /\ Exited) =>
        /\ PositionsOf(foo) = <<10, 40>>
        /\ Len(stdout) = 2
        /\ stdout[1].kind = "block" /\ stdout[1].match = 1 /\ stdout[1].line = 10
        /\ stdout[2].kind = "block" /\ stdout[2].match = 2 /\ stdout[2].line = 40

\* The "foo" batch has run to its end.
C14_Witness == FooScenario /\ Exited /\ Len(stdout) = 2

\* the node extract_function resolves: the first FunctionDef of the
\* requested name in walk order
ResolvedNode ==
    LET named(node) == node.type = "FunctionDef" /\ node.name = requested[1].name
    IN  Head(SelectSeq(Walk(tree), named))

\* C15: in AST mode, for a function node with K >= 0 decorators at lines
\* d1 < ... < dK < declLine, the resolved start line is d1 when K > 0 and
\* declLine when K = 0, the resolved end line is the node's end_lineno
\* whatever K is, and the text printed is the source lines start..end.
C15_DecoratorsIncluded ==
    (variant = "py" /\ Exited /\ stdout # <<>> /\ stdout[1].kind = "code") =>
        LET node == ResolvedNode
            K == Len(node.decorator_list)
            start == IF K = 0 THEN node.lineno ELSE node.decorator_list[1]
        IN  /\ \A k \in 1..K : node.decorator_list[k] < node.lineno
            /\ stdout[1].line = start
            /\ SpanOf(stdout[1]) = <<start, node.end_lineno>>
            /\ stdout[1].body =
                  [i \in 1..(node.end_lineno - start + 1) |-> file_content[start + i - 1]]

\* A function with two decorators was printed from its first decorator line.
C15_Witness ==
    /\ variant = "py"
    /\ Exited
    /\ stdout # <<>>
    /\ stdout[1].kind = "code"
    /\ Len(ResolvedNode.decorator_list) = 2
    /\ stdout[1].line < ResolvedNode.lineno

Ascending(l) == \A i \in 1..Len(l) : \A j \in (i + 1)..Len(l) : StrLess(l[i], l[j])

\* C16 as stated: in both variants the list handed to the selector has no
\* name twice and is in ascending order.
C16_AsStated == opc = "selecting" => Ascending(function_names)

\* C16 amended: in the C++ variant the list handed to the selector holds
\* every name of the locator's map once, in ascending order; in the Python
\* variant it holds the name of every function definition in walk order,
\* neither sorted nor deduplicated.
C16_ListBySelectorVariant ==
    opc = "selecting" =>
        IF variant = "cpp"
        THEN /\ Ascending(function_names)
             /\ {function_names[i] : i \in 1..Len(function_names)}
                   = {function_positions[i].key : i \in 1..Len(function_positions)}
        ELSE LET defs == SelectSeq(Walk(tree), LAMBDA node : node.type = "FunctionDef")
             IN  function_names = [i \in 1..Len(defs) |-> defs[i].name]

\* The C++ selector shows f before g although the indexer found g first.
C16_Witness ==
    /\ opc = "selecting"
    /\ variant = "cpp"
    /\ function_names = <<f, g>>
    /\ function_positions[1].key = g

\* C17: the terminal is held from the selector's entry on, it is restored
\* before control is back in the orchestrator on every exit path (a value
\* returned, no selection, an exception), and nothing is printed while it
\* is held.
C17_TerminalScoped ==
    [][/\ opc' = "selecting" <=> terminal' = "held"
       /\ terminal = "held" => stdout' = stdout
       /\ terminal' = "held" => stdout' = stdout]_vars

\* An exception left the event loop, the terminal is restored and the
\* traceback was printed after that.
C17_Witness ==
    /\ Exited
    /\ pc = "Raised"
    /\ terminal = "free"
    /\ stdout = <<Message("traceback")>>

\* the file is missing, the indexer or the parser failed, or the locator
\* found no function
EnvironmentFailure ==
    \/ ~file_found
    \/ indexer # "ok"
    \/ IF variant = "cpp"
       THEN ~\E i \in 1..Len(rows) :
                Len(rows[i]) >= 4 /\ rows[i][2] = kFunction /\ IsDigits(rows[i][3])
       ELSE ~\E i \in 1..Len(Walk(tree)) : Walk(tree)[i].type = "FunctionDef"

\* C18: on a missing file, an unavailable or failing indexer, or an empty
\* locator result, the run prints an error, exits with a non-zero code,
\* never starts the selector and never prints a block.
C18_EnvironmentAborts ==
    EnvironmentFailure =>
        /\ pc = "Idle"
        /\ terminal = "free"
        /\ resolutions = 0
        /\ \A i \in 1..Len(stdout) : ~IsEmitted(stdout[i])
        /\ opc \in {"main", "locate", "names", "extract", "exited"}
        /\ Exited => exit_code # 0 /\ stdout # <<>>

\* ctags is not installed: the C++ run has ended with exit code 1 after two
\* error messages.
C18_Witness ==
    /\ Exited
    /\ variant = "cpp"
    /\ file_found
    /\ indexer = "missing"
    /\ exit_code = 1
    /\ Len(stdout) = 2

=============================================================================
